---- MODULE Spec2Model ----
(***************************************************************************)
(* SnakeyBoi: the Snake game of src/main.cpp (the scored variant, lines    *)
(* 312-685) running on the CrispyOctoSpork engine loop of                  *)
(* src/unnamed/part_000.                                                   *)
(*                                                                         *)
(* Grid coordinates, velocities and times are C++ floats that only ever    *)
(* hold small integers, so they are modelled as integers.  Two floats can  *)
(* hold something else and are modelled as records [nan, v]:               *)
(* Engine::lastFrameTime, which SnakeGame never initialises (its OnCreate  *)
(* override does not call Engine::OnCreate), and secondAccumulator, which  *)
(* absorbs the first frame's delta computed from it.                       *)
(*                                                                         *)
(* The engine's ParticleEmitter is library code the game never constructs; *)
(* it has its own variable and its own specification.                      *)
(***************************************************************************)
EXTENDS Integers, Sequences, FiniteSets, TLC

VARIABLES
    pc,                        \* position of main(): "main", "loop", "respawn", "destroyed", "exited"
    isEngineRunning,           \* Engine::isEngineRunning
    ticks,                     \* the value SDL_GetTicks() returned last (environment clock, ms)
    lastFrameTime,             \* Engine::lastFrameTime (float)
    state,                     \* SnakeGame::state
    xVelocity, yVelocity,      \* Snake::xVelocity, Snake::yVelocity
    tail,                      \* Snake::tail, head first
    tailLength,                \* Snake::tailLength
    apple,                     \* Apple::x, Apple::y
    score,                     \* Score::score
    movesPerformedThisSecond,  \* SnakeGame::movesPerformedThisSecond
    secondAccumulator,         \* SnakeGame::secondAccumulator (float)
    moveThisFrameUpdate,       \* the flag of the last OnUpdatePlaying call
    textures,                  \* per Texture of the game: whether Texture::texture is not NULL
    font,                      \* whether score->texture->font is not NULL
    rendered,                  \* the screen the last frame drew: "none", "MENU", "PLAYING", "LOSE"
    frameRate,                 \* Engine::frameRate
    windowTitle,               \* <<FPS, deltaTime>> as the window title shows them, <<>> while it is the bare name
    emitter                    \* a ParticleEmitter

vars == <<pc, isEngineRunning, ticks, lastFrameTime, state, xVelocity, yVelocity,
          tail, tailLength, apple, score, movesPerformedThisSecond,
          secondAccumulator, moveThisFrameUpdate, textures, font, rendered,
          frameRate, windowTitle, emitter>>

engineVars == <<pc, isEngineRunning, ticks, lastFrameTime>>
snakeVars == <<xVelocity, yVelocity, tail, tailLength>>
schedVars == <<movesPerformedThisSecond, secondAccumulator, moveThisFrameUpdate>>
gameVars == <<state, snakeVars, apple, score, schedVars, textures, font, rendered>>

-----------------------------------------------------------------------------
(* Program constants *)

WIDTH == 640
HEIGHT == 480
GRID_SIZE == 32
GRID_WIDTH == WIDTH \div GRID_SIZE
GRID_HEIGHT == HEIGHT \div GRID_SIZE
movesPerSecond == 10
startingX == 8
startingY == 8
startingTailLength == 6

(* Bounds of the exploration *)

\* the game specification stops the clock after this many tenths of a second
MaxTenths == 4
\* rand() is sampled in the cells at most this far from the starting head
RandReach == 1
\* the cruise specification stops the clock after this many tenths of a second
MaxCruiseTenths == 17
\* and dispatches events only during the first SteerTenths of them
SteerTenths == 2
\* the pilot specification stops the clock after this many tenths of a second
MaxPilotTenths == 340
\* the scenario specification stops the clock after this many tenths of a second
MaxScenarioTenths == 10
\* the engine specification stops the clock after this many tenths of a second
MaxEngineTenths == 25
\* the particle specification constructs pools of at most this capacity
MaxPool == 3
\* and stops the clock after this many tenths of a second
MaxParticleTenths == 10

-----------------------------------------------------------------------------
(* Floats that may be NaN *)

F(n) == [nan |-> FALSE, v |-> n]
NaN == [nan |-> TRUE, v |-> 0]

AddF(a, b) == IF a.nan \/ b.nan THEN NaN ELSE F(a.v + b.v)
SubF(a, b) == IF a.nan \/ b.nan THEN NaN ELSE F(a.v - b.v)

-----------------------------------------------------------------------------
(* Grid *)

Abs(n) == IF n < 0 THEN -n ELSE n

Cell(x, y) == [x |-> x, y |-> y]
Grid == {Cell(x, y) : x \in 0..(GRID_WIDTH - 1), y \in 0..(GRID_HEIGHT - 1)}

\* the values rand() % GRID_WIDTH and rand() % GRID_HEIGHT can take
RandRange == {Cell(x, y) : x \in 0..(GRID_WIDTH - 1), y \in 0..(GRID_HEIGHT - 1)}

\* the sample of them the game specification explores: the cells of the
\* starting snake and the cells at most RandReach moves from its head
RandNear ==
    {c \in RandRange :
        \/ c.y = startingY /\ c.x <= startingX
                           /\ c.x >= startingX - (startingTailLength - 1)
        \/ Abs(c.x - startingX) + Abs(c.y - startingY) <= RandReach}

-----------------------------------------------------------------------------
(* Keyboard snapshots: the set of scancodes held *)

Up(keys) == "W" \in keys \/ "UP" \in keys
Down(keys) == "S" \in keys \/ "DOWN" \in keys
Left(keys) == "A" \in keys \/ "LEFT" \in keys
Right(keys) == "D" \in keys \/ "RIGHT" \in keys

-----------------------------------------------------------------------------
(* Textures *)

TextureNames == {"snake", "apple", "score", "menu", "lose"}

\* the files SnakeGame::OnCreate opens: four images and the font of the score
FontFile == "assets/coder-crux.ttf"
ImageFile(n) == "assets/" \o n \o ".png"
AssetFiles == {ImageFile(n) : n \in TextureNames \ {"score"}} \cup {FontFile}

NoTextures == [n \in TextureNames |-> FALSE]

\* Texture::LoadTextureFromFile: the handle IMG_LoadTexture returns is not NULL
\* exactly when the file can be read, given the set of readable files; the
\* handle the texture had is freed first
LoadTextureFromFile(file, files) == file \in files

\* Texture::LoadFromRenderedText: the handle is freed first and the load fails
\* when there is no font; the failures of TTF_RenderText_Solid and
\* SDL_CreateTextureFromSurface on a valid font are not explored
LoadFromRenderedText(f) == f

\* SnakeGame::OnCreate: the constructors (the font is opened there) and the
\* four image loads, whose results are ignored
OnCreate(files) ==
    /\ font' = (FontFile \in files)
    /\ textures' = [n \in TextureNames |->
                       IF n = "score" THEN FALSE
                       ELSE LoadTextureFromFile(ImageFile(n), files)]

\* SnakeGame::OnDestroy frees every texture
OnDestroy(tx) == NoTextures

\* the `while (isEngineRunning)` test of Engine::Start after a frame, with
\* OnDestroy when it fails
AfterFrame(tx) == IF isEngineRunning THEN tx ELSE OnDestroy(tx)

-----------------------------------------------------------------------------
(* SnakeGame::InitPlayingState *)

\* (mutant) the segments are laid out ahead of the head
StartingTail_Ahead ==
    [i \in 1..startingTailLength |-> Cell(startingX + (i - 1), startingY)]

\* the loop that rebuilds the tail: segment i (0-based) at startingX - xVelocity * i
StartingTail ==
    [i \in 1..startingTailLength |-> Cell(startingX + ((-1) * (i - 1)), startingY)]

\* (mutant) the score is not reset
InitPlayingState_KeepScore(R) ==
    /\ xVelocity' = 1
    /\ yVelocity' = 0
    /\ tailLength' = startingTailLength
    /\ tail' = StartingTail
    /\ \E c \in R : apple' = c
    /\ score' = score
    /\ textures' = [textures EXCEPT !["score"] = LoadFromRenderedText(font)]

\* (mutant) the target length is one more than the segments built
InitPlayingState_LengthOff(R) ==
    /\ xVelocity' = 1
    /\ yVelocity' = 0
    /\ tailLength' = startingTailLength + 1
    /\ tail' = StartingTail
    /\ \E c \in R : apple' = c
    /\ score' = 0
    /\ textures' = [textures EXCEPT !["score"] = LoadFromRenderedText(font)]

\* R: the values of (rand() % GRID_WIDTH, rand() % GRID_HEIGHT) explored
InitPlayingState(R) ==
    /\ xVelocity' = 1
    /\ yVelocity' = 0
    /\ tailLength' = startingTailLength
    /\ tail' = StartingTail
    /\ \E c \in R : apple' = c
    /\ score' = 0
    /\ textures' = [textures EXCEPT !["score"] = LoadFromRenderedText(font)]

-----------------------------------------------------------------------------
(* SnakeGame::OnEvent and its handlers *)

OnEventMenu(keys, R) ==
    IF "SPACE" \in keys
    THEN /\ state' = "PLAYING"
         /\ InitPlayingState(R)
    ELSE UNCHANGED <<state, snakeVars, apple, score, textures>>

\* (mutant) the guard of the down branch tests the wrong sign
PlayingVelocity_DownGuard(keys, vx, vy) ==
    IF Up(keys) THEN (IF vy # 1 THEN <<0, -1>> ELSE <<vx, vy>>)
    ELSE IF Down(keys) THEN (IF vy # 1 THEN <<0, 1>> ELSE <<vx, vy>>)
    ELSE IF Left(keys) THEN (IF vx # 1 THEN <<-1, 0>> ELSE <<vx, vy>>)
    ELSE IF Right(keys) THEN (IF vx # -1 THEN <<1, 0>> ELSE <<vx, vy>>)
    ELSE <<vx, vy>>

\* the velocity the if/else-if chain leaves, as <<xVelocity, yVelocity>>
PlayingVelocity(keys, vx, vy) ==
    IF Up(keys) THEN (IF vy # 1 THEN <<0, -1>> ELSE <<vx, vy>>)
    ELSE IF Down(keys) THEN (IF vy # -1 THEN <<0, 1>> ELSE <<vx, vy>>)
    ELSE IF Left(keys) THEN (IF vx # 1 THEN <<-1, 0>> ELSE <<vx, vy>>)
    ELSE IF Right(keys) THEN (IF vx # -1 THEN <<1, 0>> ELSE <<vx, vy>>)
    ELSE <<vx, vy>>

\* (mutant) Escape is not tested
PlayingBackToMenu_Never(keys) == FALSE

\* the last branch of the chain: reached only when no direction key is held
PlayingBackToMenu(keys) ==
    /\ ~Up(keys) /\ ~Down(keys) /\ ~Left(keys) /\ ~Right(keys)
    /\ "ESCAPE" \in keys

OnEventPlaying(keys) ==
    /\ xVelocity' = PlayingVelocity(keys, xVelocity, yVelocity)[1]
    /\ yVelocity' = PlayingVelocity(keys, xVelocity, yVelocity)[2]
    /\ state' = IF PlayingBackToMenu(keys) THEN "MENU" ELSE state
    /\ UNCHANGED <<tail, tailLength, apple, score, textures>>

\* (mutant) the LOSE case dispatches to the playing handler
OnEvent_LoseAsPlaying(keys, R) ==
    CASE state = "MENU" -> OnEventMenu(keys, R)
      [] state = "PLAYING" -> OnEventPlaying(keys)
      [] state = "LOSE" -> OnEventPlaying(keys)
      [] OTHER -> UNCHANGED <<state, snakeVars, apple, score, textures>>

OnEvent(keys, R) ==
    CASE state = "MENU" -> OnEventMenu(keys, R)
      [] state = "PLAYING" -> OnEventPlaying(keys)
      [] state = "LOSE" -> OnEventMenu(keys, R)
      [] OTHER -> UNCHANGED <<state, snakeVars, apple, score, textures>>

-----------------------------------------------------------------------------
(* SnakeGame::OnUpdate and its handlers *)

\* (mutant) the window test is strict
WindowOver_Strict(acc) == ~acc.nan /\ acc.v > 1000

\* secondAccumulator >= 1000.0 (false for NaN)
WindowOver(acc) == ~acc.nan /\ acc.v >= 1000

\* movesPerformedThisSecond < secondAccumulator * movesPerSecond / 1000.0f: an
\* int against a float.  For the integer accumulators of the model the float
\* quotient is within 1e-4 of acc/100 and exact when that is an integer, so
\* the comparison is the exact one, cross-multiplied.  False for NaN.
\* (mutant) the comparison is not strict
StepDue_OrEqual(m, acc) == ~acc.nan /\ m * 1000 <= acc.v * movesPerSecond

StepDue(m, acc) == ~acc.nan /\ m * 1000 < acc.v * movesPerSecond

\* (mutant) the upper test is off by one
Wrap_OffByOne(v, dim) ==
    LET a == IF v > dim THEN 0 ELSE v
    IN  IF a < 0 THEN dim - 1 ELSE a

\* the two wrap tests of one coordinate, in the code's order
Wrap(v, dim) ==
    LET a == IF v > dim - 1 THEN 0 ELSE v
    IN  IF a < 0 THEN dim - 1 ELSE a

\* (mutant) the two velocities are swapped
NewHead_Swapped(t, vx, vy) ==
    Cell(Wrap(t[1].x + vy, GRID_WIDTH), Wrap(t[1].y + vx, GRID_HEIGHT))

NewHead(t, vx, vy) ==
    Cell(Wrap(t[1].x + vx, GRID_WIDTH), Wrap(t[1].y + vy, GRID_HEIGHT))

\* (mutant) the loop runs over no segment
Collides_EmptyLoop(t, n, h) == \E i \in 1..0 : t[i] = h

\* (mutant) the loop stops one segment short
Collides_SkipLast(t, n, h) == \E i \in 1..(n - 1) : t[i] = h

\* the self-collision loop over the first n segments of t
Collides(t, n, h) == \E i \in 1..n : t[i] = h

\* the inner loop of the respawn search: cell c is kept when none of the first
\* n segments of t lies on it
ValidAppleSpawn(t, n, c) == ~\E i \in 1..n : t[i] = c

\* (mutant) the last segment is kept
PopBack_Keep(t) == t

\* snake->tail.pop_back()
PopBack(t) == SubSeq(t, 1, Len(t) - 1)

\* (mutant) the step returns as soon as it has detected the collision
Step_CutShort(R) ==
    LET h == NewHead(tail, xVelocity, yVelocity)
        t1 == <<h>> \o tail
        running == IF isEngineRunning THEN "loop" ELSE "destroyed"
    IN  IF Collides(tail, tailLength, h)
        THEN /\ state' = "LOSE"
             /\ pc' = running
             /\ textures' = AfterFrame(textures)
             /\ UNCHANGED <<snakeVars, apple, score>>
        ELSE /\ state' = state
             /\ IF t1[1] = apple
                THEN /\ score' = score + 1
                     /\ tail' = t1
                     /\ \E c \in R : /\ ValidAppleSpawn(t1, tailLength, c)
                                     /\ apple' = c
                     /\ tailLength' = tailLength + 1
                     /\ pc' = running
                     /\ textures' = AfterFrame(
                            [textures EXCEPT !["score"] = LoadFromRenderedText(font)])
                ELSE /\ tail' = PopBack(t1)
                     /\ pc' = running
                     /\ textures' = AfterFrame(textures)
                     /\ UNCHANGED <<tailLength, apple, score>>
             /\ UNCHANGED <<xVelocity, yVelocity>>

\* One simulation step (the body of `if (moveThisFrameUpdate)`).
\* The respawn loop draws cells until one is valid; its result is any valid
\* cell.  When no cell of the grid is valid the loop never exits: pc stays in
\* it, with the score already incremented and tailLength not yet.
Step(R) ==
    LET h == NewHead(tail, xVelocity, yVelocity)
        t1 == <<h>> \o tail
        running == IF isEngineRunning THEN "loop" ELSE "destroyed"
    IN  /\ state' = IF Collides(tail, tailLength, h) THEN "LOSE" ELSE state
        /\ IF t1[1] = apple
           THEN /\ score' = score + 1
                /\ tail' = t1
                /\ IF \E c \in RandRange : ValidAppleSpawn(t1, tailLength, c)
                   THEN /\ \E c \in R : /\ ValidAppleSpawn(t1, tailLength, c)
                                        /\ apple' = c
                        /\ tailLength' = tailLength + 1
                        /\ pc' = running
                        /\ textures' = AfterFrame(
                               [textures EXCEPT !["score"] = LoadFromRenderedText(font)])
                   ELSE /\ \E c \in R : apple' = c
                        /\ tailLength' = tailLength
                        /\ pc' = "respawn"
                        /\ textures' =
                               [textures EXCEPT !["score"] = LoadFromRenderedText(font)]
           ELSE /\ tail' = PopBack(t1)
                /\ pc' = running
                /\ textures' = AfterFrame(textures)
                /\ UNCHANGED <<tailLength, apple, score>>
        /\ UNCHANGED <<xVelocity, yVelocity>>

OnUpdatePlaying(deltaTime, R) ==
    LET acc1 == AddF(secondAccumulator, deltaTime)
        over == WindowOver(acc1)
        acc2 == IF over THEN F(0) ELSE acc1
        m1 == IF over THEN 0 ELSE movesPerformedThisSecond
        due == StepDue(m1, acc2)
    IN  /\ secondAccumulator' = acc2
        /\ moveThisFrameUpdate' = due
        /\ movesPerformedThisSecond' = IF due THEN m1 + 1 ELSE m1
        /\ IF due
           THEN Step(R)
           ELSE /\ pc' = IF isEngineRunning THEN "loop" ELSE "destroyed"
                /\ textures' = AfterFrame(textures)
                /\ UNCHANGED <<state, snakeVars, apple, score>>

\* (mutant) the LOSE case runs the playing update
OnUpdate_LoseAsPlaying(deltaTime, R) ==
    IF state \in {"PLAYING", "LOSE"}
    THEN OnUpdatePlaying(deltaTime, R)
    ELSE /\ pc' = IF isEngineRunning THEN "loop" ELSE "destroyed"
         /\ textures' = AfterFrame(textures)
         /\ UNCHANGED <<state, snakeVars, apple, score, schedVars>>

\* OnUpdateMenu and OnUpdateLose only render
OnUpdate(deltaTime, R) ==
    IF state = "PLAYING"
    THEN OnUpdatePlaying(deltaTime, R)
    ELSE /\ pc' = IF isEngineRunning THEN "loop" ELSE "destroyed"
         /\ textures' = AfterFrame(textures)
         /\ UNCHANGED <<state, snakeVars, apple, score, schedVars>>

-----------------------------------------------------------------------------
(* FrameRate *)

\* currentFrameTime - timeStampOfBeginingOfSecond >= 1000.0: a Uint32
\* difference, which the clock values explored (a few seconds) never wrap
SampleDue(fr, now) == now - fr.timeStampOfBeginingOfSecond >= 1000

\* the object FrameRate::OnUpdate leaves when SDL_GetTicks() returns now
FrameRateOnUpdate(fr, now) ==
    IF SampleDue(fr, now)
    THEN [timeStampOfBeginingOfSecond |-> now,
          currentFramesPerSecond |-> fr.currentSecondsFrameCount + 1,
          currentSecondsFrameCount |-> 0]
    ELSE [fr EXCEPT !.currentSecondsFrameCount = @ + 1]

\* (mutant) the frame of the sample point is not counted
FrameRateReturn_Uncounted(fr, now) ==
    IF SampleDue(fr, now) THEN fr.currentSecondsFrameCount ELSE 0

\* and the value it returns
FrameRateReturn(fr, now) ==
    IF SampleDue(fr, now) THEN fr.currentSecondsFrameCount + 1 ELSE 0

-----------------------------------------------------------------------------
(* main() and the engine loop *)

\* (mutant) main() starts the loop whatever Create returned
CreateFails_StartAnyway ==
    /\ pc = "main"
    /\ pc' = "loop"
    /\ UNCHANGED <<isEngineRunning, ticks, lastFrameTime, frameRate,
                   windowTitle, gameVars, emitter>>

\* Engine::Create returned false (at any of its five tests): main() returns
\* without calling Start
CreateFails ==
    /\ pc = "main"
    /\ pc' = "exited"
    /\ UNCHANGED <<isEngineRunning, ticks, lastFrameTime, frameRate,
                   windowTitle, gameVars, emitter>>

\* (mutant) a load that fails in OnCreate ends the program
Start_AbortOnFailedLoad(files) ==
    /\ pc = "main"
    /\ pc' = IF files = AssetFiles THEN "loop" ELSE "exited"
    /\ isEngineRunning' = (files = AssetFiles)
    /\ OnCreate(files)
    /\ UNCHANGED <<ticks, lastFrameTime, frameRate, windowTitle, state,
                   snakeVars, apple, score, schedVars, rendered, emitter>>

\* Engine::Create returned true: Start sets the flag, calls OnCreate and enters
\* the loop; files are the asset files that can be read
Start(files) ==
    /\ pc = "main"
    /\ pc' = "loop"
    /\ isEngineRunning' = TRUE
    /\ OnCreate(files)
    /\ UNCHANGED <<ticks, lastFrameTime, frameRate, windowTitle, state,
                   snakeVars, apple, score, schedVars, rendered, emitter>>

\* one pass of the SDL_PollEvent loop of Engine::Update: an event arrives (a
\* quit request or any other) and is dispatched with the keyboard snapshot
\* (mutant) a start input also resets the move scheduler
PollEvent_StartResetsWindow(keys, quit, R) ==
    /\ pc = "loop"
    /\ isEngineRunning' = IF quit THEN FALSE ELSE isEngineRunning
    /\ OnEvent(keys, R)
    /\ IF state # "PLAYING" /\ "SPACE" \in keys
       THEN /\ movesPerformedThisSecond' = 0
            /\ secondAccumulator' = F(0)
            /\ UNCHANGED moveThisFrameUpdate
       ELSE UNCHANGED schedVars
    /\ UNCHANGED <<pc, ticks, lastFrameTime, font, rendered, frameRate,
                   windowTitle, emitter>>

\* (mutant) a quit request ends the loop at once
PollEvent_QuitStopsAtOnce(keys, quit, R) ==
    /\ pc = "loop"
    /\ isEngineRunning' = IF quit THEN FALSE ELSE isEngineRunning
    /\ OnEvent(keys, R)
    /\ pc' = IF quit THEN "destroyed" ELSE pc
    /\ UNCHANGED <<ticks, lastFrameTime, schedVars, font, rendered, frameRate,
                   windowTitle, emitter>>

PollEvent(keys, quit, R) ==
    /\ pc = "loop"
    /\ isEngineRunning' = IF quit THEN FALSE ELSE isEngineRunning
    /\ OnEvent(keys, R)
    /\ UNCHANGED <<pc, ticks, lastFrameTime, schedVars, font, rendered, frameRate,
                   windowTitle, emitter>>

\* the rest of Engine::Update once the event queue is empty, d ms after the
\* previous reading of the clock (FrameRate::OnUpdate reads the same value);
\* then the `while (isEngineRunning)` test of Engine::Start, with OnDestroy
\* when it fails.  A frame that never leaves the respawn loop draws nothing
\* and does not reach the frame counter.
Update(d, R) ==
    /\ pc = "loop"
    /\ ticks' = ticks + d
    /\ lastFrameTime' = F(ticks')
    /\ OnUpdate(SubF(F(ticks'), lastFrameTime), R)
    /\ IF pc' = "respawn"
       THEN UNCHANGED <<rendered, frameRate, windowTitle>>
       ELSE /\ rendered' = state
            /\ frameRate' = FrameRateOnUpdate(frameRate, ticks')
            /\ windowTitle' =
                  IF FrameRateReturn(frameRate, ticks') # 0
                  THEN <<frameRate'.currentFramesPerSecond,
                         SubF(F(ticks'), lastFrameTime)>>
                  ELSE windowTitle
    /\ UNCHANGED <<isEngineRunning, font, emitter>>

-----------------------------------------------------------------------------
(* ParticleEmitter *)

\* a Particle as its member initialisers leave it (position and velocity are
\* not modelled)
NewParticle == [active |-> FALSE, lifeTimeRemaining |-> 0, totalLifeTime |-> 0]

\* ParticleEmitter::ParticleEmitter(): no pool.  strayWrites collects the
\* indices written outside the pool, written lists the indices the creation
\* loop of the last OnUpdate wrote, in order.
DefaultEmitter ==
    [active |-> FALSE, maxParticles |-> 0, newParticlesPerSecond |-> 0,
     lifeInMiliseconds |-> 0, startOfSecond |-> 0, particlesCreatedThisSecond |-> 0,
     currentParticlePoolIndex |-> 0,
     particlePool |-> [i \in {} |-> NewParticle],
     strayWrites |-> {}, written |-> <<>>]

\* the nine-argument constructor, when SDL_GetTicks() returns now
ParticleEmitter(life, rate, max, now) ==
    [active |-> TRUE, maxParticles |-> max, newParticlesPerSecond |-> rate,
     lifeInMiliseconds |-> life, startOfSecond |-> now,
     particlesCreatedThisSecond |-> 0, currentParticlePoolIndex |-> 0,
     particlePool |-> [i \in 0..(max - 1) |-> NewParticle],
     strayWrites |-> {}, written |-> <<>>]

\* (mutant) the index wraps after the last slot
NextPoolIndex_FullRing(i, max) == IF i + 1 > max - 1 THEN 0 ELSE i + 1

\* the index after a creation at index i
NextPoolIndex(i, max) == IF i + 1 > max - 2 THEN 0 ELSE i + 1

\* one pass of the creation loop: the particle at currentParticlePoolIndex is
\* (re)started, wherever that index points
CreateParticle(e) ==
    LET i == e.currentParticlePoolIndex
        p == [active |-> TRUE, lifeTimeRemaining |-> e.lifeInMiliseconds,
              totalLifeTime |-> e.lifeInMiliseconds]
    IN  [e EXCEPT !.particlePool = IF i \in DOMAIN @ THEN [@ EXCEPT ![i] = p] ELSE @,
                  !.strayWrites = IF i \in DOMAIN e.particlePool THEN @ ELSE @ \cup {i},
                  !.written = Append(@, i),
                  !.currentParticlePoolIndex = NextPoolIndex(i, e.maxParticles),
                  !.particlesCreatedThisSecond = @ + 1]

RECURSIVE CreateParticles(_, _)
CreateParticles(e, n) == IF n <= 0 THEN e ELSE CreateParticles(CreateParticle(e), n - 1)

\* (mutant) a particle is deactivated only below zero
AgeParticle_BelowZero(p, deltaTime) ==
    IF ~p.active THEN p
    ELSE [p EXCEPT !.lifeTimeRemaining = @ - deltaTime,
                   !.active = (p.lifeTimeRemaining - deltaTime >= 0)]

\* the update loop, for one slot
AgeParticle(p, deltaTime) ==
    IF ~p.active THEN p
    ELSE [p EXCEPT !.lifeTimeRemaining = @ - deltaTime,
                   !.active = (p.lifeTimeRemaining - deltaTime > 0)]

\* the emitter ParticleEmitter::OnUpdate(deltaTime) leaves when SDL_GetTicks()
\* returns now
EmitterAfterUpdate(e, deltaTime, now) ==
    IF ~e.active THEN e
    ELSE LET elapsedTimeInSecond == now - e.startOfSecond
             should == (elapsedTimeInSecond * e.newParticlesPerSecond) \div 1000
             created == CreateParticles([e EXCEPT !.written = <<>>],
                                        should - e.particlesCreatedThisSecond)
         IN  [created EXCEPT !.particlePool =
                 [i \in DOMAIN @ |-> AgeParticle(@[i], deltaTime)]]

\* ParticleEmitter::OnRender: the alpha passed to Render for each active
\* particle (both conversions to int truncate)
Alpha(p) == (p.lifeTimeRemaining * 255) \div p.totalLifeTime

OnRender(e) ==
    [i \in {j \in DOMAIN e.particlePool : e.particlePool[j].active} |->
        Alpha(e.particlePool[i])]

\* a program constructs an emitter
EmitterNew(life, rate, max) ==
    /\ pc = "main"
    /\ emitter = DefaultEmitter
    /\ emitter' = ParticleEmitter(life, rate, max, ticks)
    /\ UNCHANGED <<engineVars, frameRate, windowTitle, gameVars>>

\* and calls its OnUpdate d ms after the previous reading of the clock
EmitterOnUpdate(d, deltaTime) ==
    /\ pc = "main"
    /\ ticks' = ticks + d
    /\ emitter' = EmitterAfterUpdate(emitter, deltaTime, ticks')
    /\ UNCHANGED <<pc, isEngineRunning, lastFrameTime, frameRate, windowTitle,
                   gameVars>>

-----------------------------------------------------------------------------
(* Specifications *)

\* what the uninitialised lastFrameTime may hold, sampled: NaN, 0 and 200, so
\* that the first delta is NaN, the time since start-up or negative
Garbage == {NaN, F(0), F(200)}

Init ==
    /\ pc = "main"
    /\ isEngineRunning = FALSE
    /\ ticks = 0
    /\ lastFrameTime \in Garbage
    /\ state = "MENU"
    /\ xVelocity = 0
    /\ yVelocity = 0
    /\ tail = <<>>
    /\ tailLength = 0
    /\ apple = Cell(0, 0)
    /\ score = 0
    /\ movesPerformedThisSecond = 0
    /\ secondAccumulator = F(0)
    /\ moveThisFrameUpdate = FALSE
    /\ textures = NoTextures
    /\ font = FALSE
    /\ rendered = "none"
    /\ frameRate = [timeStampOfBeginingOfSecond |-> 0,
                    currentFramesPerSecond |-> 0,
                    currentSecondsFrameCount |-> 0]
    /\ windowTitle = <<>>
    /\ emitter = DefaultEmitter

\* keyboard snapshots explored: no key, one key or two keys among the arrow
\* keys, Escape and Space, and each letter key alone
KeySnapshots ==
    {k \in SUBSET {"UP", "DOWN", "LEFT", "RIGHT", "ESCAPE", "SPACE"} :
        Cardinality(k) <= 2}
        \cup {{"W"}, {"S"}, {"A"}, {"D"}}

\* frame times explored by the game specification
Deltas == {100}

Next ==
    \/ CreateFails
    \/ Start(AssetFiles)
    \/ \E keys \in KeySnapshots : PollEvent(keys, FALSE, RandNear)
    \/ \E d \in Deltas : ticks + d <= MaxTenths * 100 /\ Update(d, RandNear)

Spec == Init /\ [][Next]_vars

\* The cruise specification: a player who starts and steers during the first
\* SteerTenths tenths of a second, one key at a time, and then lets the snake
\* run, on a machine with a steady frame time of 50, 100 or 150 ms.
CruiseKeys == {{"SPACE"}, {"UP"}, {"DOWN"}, {"LEFT"}, {"RIGHT"}}

CruiseDeltas == {50, 100, 150}

\* every frame so far took d ms, as far as the frame counter remembers: the
\* frames of its current window did, and its last window held as many frames
\* of d ms as it takes to reach 1000 ms
SteadyFrame(d) ==
    /\ frameRate.currentSecondsFrameCount * d
          = ticks - frameRate.timeStampOfBeginingOfSecond
    /\ \/ frameRate.timeStampOfBeginingOfSecond = 0
       \/ /\ frameRate.currentFramesPerSecond * d >= 1000
          /\ (frameRate.currentFramesPerSecond - 1) * d < 1000

NextCruise ==
    \/ CreateFails
    \/ Start(AssetFiles)
    \/ \E keys \in CruiseKeys :
          ticks < SteerTenths * 100 /\ PollEvent(keys, FALSE, RandNear)
    \/ \E d \in CruiseDeltas :
          /\ ticks + d <= MaxCruiseTenths * 100
          /\ SteadyFrame(d)
          /\ Update(d, RandNear)

SpecCruise == Init /\ [][NextCruise]_vars

\* The pilot specification: a player who starts at once and steers the snake
\* along a closed tour of the whole grid (left along row 0, down the even
\* columns and up the odd ones over rows 1 to GRID_HEIGHT - 1), always turning
\* before the next step; 100 ms frames; the first apple drawn at the bottom of
\* the starting column and every later one on the cell the head enters next.
PilotNext(c) ==
    IF c.y = 0
    THEN (IF c.x > 0 THEN Cell(c.x - 1, 0) ELSE Cell(0, 1))
    ELSE IF c.x % 2 = 0
    THEN (IF c.y < GRID_HEIGHT - 1 THEN Cell(c.x, c.y + 1) ELSE Cell(c.x + 1, c.y))
    ELSE (IF c.y > 1 THEN Cell(c.x, c.y - 1)
          ELSE IF c.x < GRID_WIDTH - 1 THEN Cell(c.x + 1, c.y) ELSE Cell(c.x, 0))

PilotVelocity(c) == <<PilotNext(c).x - c.x, PilotNext(c).y - c.y>>

PilotKey(c) ==
    CASE PilotVelocity(c) = <<0, -1>> -> "UP"
      [] PilotVelocity(c) = <<0, 1>> -> "DOWN"
      [] PilotVelocity(c) = <<-1, 0>> -> "LEFT"
      [] PilotVelocity(c) = <<1, 0>> -> "RIGHT"

PilotFirstApple == Cell(startingX, GRID_HEIGHT - 1)

NextPilot ==
    \/ CreateFails
    \/ Start(AssetFiles)
    \/ PollEvent(IF state = "PLAYING" THEN {PilotKey(tail[1])} ELSE {"SPACE"},
                 FALSE, {PilotFirstApple})
    \/ /\ state = "PLAYING"
       /\ <<xVelocity, yVelocity>> = PilotVelocity(tail[1])
       /\ ticks + 100 <= MaxPilotTenths * 100
       /\ Update(100, {PilotNext(NewHead(tail, xVelocity, yVelocity))})

SpecPilot == Init /\ [][NextPilot]_vars

\* The scenario specification: a player who presses Space in the menu and
\* then touches nothing; frames of 50 and 100 ms in any order; every apple
\* drawn off the snake's row.
ScenarioDeltas == {50, 100}

RandOffPath ==
    {c \in RandRange : /\ c.y # startingY
                       /\ Abs(c.x - startingX) + Abs(c.y - startingY) <= 2}

NextScenario ==
    \/ CreateFails
    \/ Start(AssetFiles)
    \/ state = "MENU" /\ PollEvent({"SPACE"}, FALSE, RandOffPath)
    \/ \E d \in ScenarioDeltas :
          ticks + d <= MaxScenarioTenths * 100 /\ Update(d, RandOffPath)

SpecScenario == Init /\ [][NextScenario]_vars

\* The engine specification: start-up with every asset file readable, one of
\* them missing or all of them missing; a player who only presses Space and
\* may close the window; frames of 300, 500 and 1000 ms in any order.
EngineFiles ==
    {AssetFiles, {}} \cup {AssetFiles \ {f} : f \in AssetFiles}

EngineKeys == {{}, {"SPACE"}}

EngineDeltas == {300, 500, 1000}

NextEngine ==
    \/ CreateFails
    \/ \E files \in EngineFiles : Start(files)
    \/ \E keys \in EngineKeys, quit \in BOOLEAN : PollEvent(keys, quit, RandOffPath)
    \/ \E d \in EngineDeltas :
          ticks + d <= MaxEngineTenths * 100 /\ Update(d, RandOffPath)

SpecEngine == Init /\ [][NextEngine]_vars

\* The particle specification: a program that constructs one emitter and
\* calls its OnUpdate every 100 or 200 ms, with a deltaTime of 0 (two frames
\* within one millisecond), 100 or 200 ms.
ParticleLifetimes == {150, 300}

ParticleRates == {0, 5, 20}

ParticleDeltas == {100, 200}

ParticleDeltaTimes == {0, 100, 200}

NextParticles ==
    \/ \E life \in ParticleLifetimes, rate \in ParticleRates, max \in 0..MaxPool :
          EmitterNew(life, rate, max)
    \/ \E d \in ParticleDeltas, deltaTime \in ParticleDeltaTimes :
          ticks + d <= MaxParticleTenths * 100 /\ EmitterOnUpdate(d, deltaTime)

SpecParticles == Init /\ [][NextParticles]_vars

-----------------------------------------------------------------------------
(* Vocabulary of the properties *)

\* the step is one pass of Engine::Update after the event loop: PollEvent
\* leaves all of these alone
FrameDone ==
    /\ pc = "loop"
    /\ \/ ticks' # ticks
       \/ lastFrameTime' # lastFrameTime
       \/ schedVars' # schedVars

\* the step is a frame of OnUpdatePlaying that performed a simulation step
StepDone == FrameDone /\ state = "PLAYING" /\ moveThisFrameUpdate'

\* head + velocity on the torus
WrappedHead ==
    Cell((tail[1].x + xVelocity) % GRID_WIDTH, (tail[1].y + yVelocity) % GRID_HEIGHT)

Cells(t) == {t[i] : i \in 1..Len(t)}

Distinct(t) == Cardinality(Cells(t)) = Len(t)

-----------------------------------------------------------------------------
\* C1: a simulation step turns PLAYING into LOSE if and only if the wrapped new
\* head lies on one of the tailLength segments the snake had before the head
\* was inserted (the last one included); otherwise the state stays PLAYING,
\* and LOSE is entered by no other step.
C1_LoseIffHeadHitsPreMoveSegment ==
    [][ /\ StepDone =>
             IF \E i \in 1..tailLength : tail[i] = WrappedHead
             THEN state' = "LOSE"
             ELSE state' = "PLAYING"
        /\ (state # "LOSE" /\ state' = "LOSE") =>
             /\ StepDone
             /\ \E i \in 1..tailLength : tail[i] = WrappedHead ]_vars

\* a lost game whose snake shows no overlap: the head hit the last segment,
\* which the same step then removed
C1_Witness ==
    /\ state = "LOSE"
    /\ Len(tail) = startingTailLength
    /\ Distinct(tail)

\* C2: after a step that eats the apple, the new apple lies on none of the
\* segments of the grown snake.
C2_RespawnAvoidsGrownSnake ==
    [][ (StepDone /\ WrappedHead = apple /\ pc' # "respawn") =>
            \A i \in 1..Len(tail') : tail'[i] # apple' ]_vars

\* the frame's delta, as Engine::Update computes it, and the accumulator of a
\* PLAYING frame once the delta is added
FrameDelta == SubF(F(ticks'), lastFrameTime)
FrameSum == AddF(secondAccumulator, FrameDelta)

\* the step is a PLAYING frame whose accumulator is a number
PlayingFrame == FrameDone /\ state = "PLAYING" /\ ~FrameSum.nan

\* the accumulator and the performed count once the window reset is applied
AfterResetAcc == IF FrameSum.v >= 1000 THEN 0 ELSE FrameSum.v
AfterResetMoves == IF FrameSum.v >= 1000 THEN 0 ELSE movesPerformedThisSecond

\* the snake, the apple and the score are those one simulation step leaves
OneStep ==
    /\ tail'[1] = WrappedHead
    /\ \/ tail' = <<WrappedHead>> \o tail
       \/ tail' = <<WrappedHead>> \o SubSeq(tail, 1, Len(tail) - 1)

\* C3 as claimed: when the deltas of a window sum to exactly 1000 ms, the
\* steps signalled in it number exactly movesPerSecond, and the count is reset
\* to 0 at the boundary.
C3_ExactlyRPerWindow ==
    [][ (PlayingFrame /\ FrameSum.v = 1000) =>
            /\ movesPerformedThisSecond = movesPerSecond
            /\ movesPerformedThisSecond' = 0 ]_vars

\* C3, amended: when the deltas of a window sum to exactly 1000 ms, the steps
\* signalled in it number at most movesPerSecond; the frame that completes
\* the window signals none, and resets the count and the accumulator to 0.
C3_AtMostRPerWindow ==
    [][ (PlayingFrame /\ FrameSum.v = 1000) =>
            /\ movesPerformedThisSecond <= movesPerSecond
            /\ movesPerformedThisSecond' = 0
            /\ secondAccumulator' = F(0)
            /\ ~moveThisFrameUpdate' ]_vars

\* a game started at time 0 has run through a window of exactly 1000 ms in
\* frames of 50 ms and taken movesPerSecond steps to the right in it
C3_Witness ==
    /\ state = "PLAYING"
    /\ ticks = 1000
    /\ secondAccumulator = F(0)
    /\ movesPerformedThisSecond = 0
    /\ tail[1] = Cell(startingX + movesPerSecond, startingY)

\* C4 as claimed: a step is due exactly when the performed count is below
\* floor(accumulator * movesPerSecond / 1000); then one step is performed and
\* the count goes up by one, otherwise nothing moves.
C4_DueIffBelowFloor ==
    [][ PlayingFrame =>
            LET due == AfterResetMoves < (AfterResetAcc * movesPerSecond) \div 1000
            IN  /\ moveThisFrameUpdate' = due
                /\ due => /\ movesPerformedThisSecond' = AfterResetMoves + 1
                          /\ OneStep
                /\ ~due => /\ movesPerformedThisSecond' = AfterResetMoves
                           /\ UNCHANGED <<snakeVars, apple, score, state>> ]_vars

\* C4, amended: a step is due exactly when the performed count is below
\* accumulator * movesPerSecond / 1000 itself, not its floor; then one step is
\* performed and the count goes up by one, otherwise nothing moves.
C4_DueIffBelowQuotient ==
    [][ PlayingFrame =>
            LET due == AfterResetMoves * 1000 < AfterResetAcc * movesPerSecond
            IN  /\ moveThisFrameUpdate' = due
                /\ due => /\ movesPerformedThisSecond' = AfterResetMoves + 1
                          /\ OneStep
                /\ ~due => /\ movesPerformedThisSecond' = AfterResetMoves
                           /\ UNCHANGED <<snakeVars, apple, score, state>> ]_vars

\* a step was performed with the accumulator at 50 ms, where the quotient is
\* 0.5 and its floor 0
C4_Witness ==
    /\ state = "PLAYING"
    /\ secondAccumulator = F(50)
    /\ movesPerformedThisSecond = 1
    /\ moveThisFrameUpdate

\* C6: a step puts the new head at head + velocity on the torus (past the
\* last column or row to 0, below 0 to the last column or row), every segment
\* of the snake lies in the grid, and the wrap leaves in-range coordinates
\* alone.
C6_ToroidalWrap ==
    /\ [](\A i \in 1..Len(tail) : tail[i] \in Grid)
    /\ [][ (StepDone /\ pc' # "respawn") => tail'[1] = WrappedHead ]_vars
    /\ [](\A v \in 0..(GRID_WIDTH - 1) : Wrap(v, GRID_WIDTH) = v)
    /\ [](\A v \in 0..(GRID_HEIGHT - 1) : Wrap(v, GRID_HEIGHT) = v)

\* the snake lies across the right edge: its head has wrapped to column 0
C6_Witness ==
    /\ Len(tail) >= 2
    /\ tail[1].x = 0
    /\ tail[2].x = GRID_WIDTH - 1

\* the unit vector a direction key asks for
Requested(key) ==
    CASE key \in {"W", "UP"} -> <<0, -1>>
      [] key \in {"S", "DOWN"} -> <<0, 1>>
      [] key \in {"A", "LEFT"} -> <<-1, 0>>
      [] key \in {"D", "RIGHT"} -> <<1, 0>>

DirectionKeys == {"W", "S", "A", "D", "UP", "DOWN", "LEFT", "RIGHT"}

\* C5: in PLAYING, with a single direction key held, a dispatch leaves the
\* velocity alone when the key asks for the exact opposite of it, and sets it
\* to the key's unit vector when the key asks for a perpendicular direction.
C5_ReversalRejectedTurnAccepted ==
    (pc = "loop" /\ state = "PLAYING") =>
        \A key \in DirectionKeys :
            LET r == Requested(key)
                v == <<xVelocity, yVelocity>>
            IN  /\ r = <<-v[1], -v[2]>> =>
                     ~ENABLED (/\ PollEvent({key}, FALSE, RandRange)
                               /\ <<xVelocity', yVelocity'>> # v)
                /\ r[1] * v[1] + r[2] * v[2] = 0 =>
                     /\ ENABLED PollEvent({key}, FALSE, RandRange)
                     /\ ~ENABLED (/\ PollEvent({key}, FALSE, RandRange)
                                  /\ <<xVelocity', yVelocity'>> # r)

\* the snake has turned down before its first step, and so has a reverse (up)
\* and two perpendicular directions to ask for
C5_Witness ==
    /\ pc = "loop"
    /\ state = "PLAYING"
    /\ tail = StartingTail
    /\ <<xVelocity, yVelocity>> = <<0, 1>>

\* C7: a step that eats the apple adds one to tailLength and keeps every old
\* segment, in order, behind the new head; any other step removes the last
\* segment after inserting the head and leaves tailLength unchanged.
C7_GrowOnEatElseShift ==
    [][ (StepDone /\ pc' # "respawn") =>
            IF WrappedHead = apple
            THEN /\ tailLength' = tailLength + 1
                 /\ tail' = <<WrappedHead>> \o tail
            ELSE /\ tailLength' = tailLength
                 /\ tail' = <<WrappedHead>> \o SubSeq(tail, 1, Len(tail) - 1) ]_vars

\* the snake has eaten once and moved on without eating
C7_Witness ==
    /\ state = "PLAYING"
    /\ score = 1
    /\ tailLength = startingTailLength + 1
    /\ Len(tail) = tailLength
    /\ tail[Len(tail)] # Cell(startingX - (startingTailLength - 1), startingY)

\* C8: the respawn search of a step that eats the apple always comes to an
\* end: the step is never left inside the loop with no cell it can accept.
C8_RespawnTerminates == pc # "respawn"

\* C9: the game state changes only along MENU -> PLAYING and LOSE -> PLAYING
\* (in an event dispatch), PLAYING -> MENU (in an event dispatch) and
\* PLAYING -> LOSE (in a frame that performs a step); PAUSE is never reached.
C9_StateTransitions ==
    /\ [](state \in {"MENU", "PLAYING", "LOSE"})
    /\ [][ state' # state =>
             \/ /\ <<state, state'>> \in {<<"MENU", "PLAYING">>, <<"LOSE", "PLAYING">>,
                                          <<"PLAYING", "MENU">>}
                /\ ~FrameDone
             \/ /\ <<state, state'>> = <<"PLAYING", "LOSE">>
                /\ StepDone ]_vars

\* a game has been started again after at least two steps of an earlier one:
\* the state has left PLAYING, through MENU or LOSE, and come back
C9_Witness ==
    /\ state = "PLAYING"
    /\ tail = StartingTail
    /\ score = 0
    /\ movesPerformedThisSecond >= 2

\* C10 as claimed: in PLAYING, every dispatch with Escape held ends in MENU.
C10_EscapeAlwaysLeaves ==
    (pc = "loop" /\ state = "PLAYING") =>
        \A keys \in KeySnapshots :
            "ESCAPE" \in keys =>
                ~ENABLED (PollEvent(keys, FALSE, RandRange) /\ state' # "MENU")

\* C10, amended: in PLAYING, every dispatch with Escape held and no direction
\* key held ends in MENU.
C10_EscapeAloneLeaves ==
    (pc = "loop" /\ state = "PLAYING") =>
        \A keys \in KeySnapshots :
            ("ESCAPE" \in keys /\ keys \cap DirectionKeys = {}) =>
                /\ ENABLED PollEvent(keys, FALSE, RandRange)
                /\ ~ENABLED (PollEvent(keys, FALSE, RandRange) /\ state' # "MENU")

\* back in the menu with a game under way: only Escape leads here
C10_Witness ==
    /\ state = "MENU"
    /\ tailLength >= startingTailLength
    /\ tail # StartingTail

-----------------------------------------------------------------------------
\* C11: in MENU and in LOSE, a dispatch with Space held sets the state to
\* PLAYING and leaves, whatever the snake and the score were: velocity (1,0),
\* tailLength 6, the segments (8,8),(7,8),(6,8),(5,8),(4,8),(3,8) head first,
\* the apple in a grid cell and the score 0.
C11_StartRunsInitializer ==
    (pc = "loop" /\ state \in {"MENU", "LOSE"}) =>
        \A keys \in KeySnapshots :
            "SPACE" \in keys =>
                /\ ENABLED PollEvent(keys, FALSE, RandNear)
                /\ ~ENABLED (/\ PollEvent(keys, FALSE, RandNear)
                             /\ ~(/\ state' = "PLAYING"
                                  /\ <<xVelocity', yVelocity'>> = <<1, 0>>
                                  /\ tailLength' = 6
                                  /\ tail' = <<Cell(8, 8), Cell(7, 8), Cell(6, 8),
                                               Cell(5, 8), Cell(4, 8), Cell(3, 8)>>
                                  /\ apple' \in Grid
                                  /\ score' = 0))

\* a lost game with a snake that has grown and turned, waiting for Space
C11_Witness ==
    /\ pc = "loop"
    /\ state = "LOSE"
    /\ score >= 1
    /\ <<xVelocity, yVelocity>> # <<1, 0>>

\* C12: a step whose new head is on the apple adds exactly one to the score;
\* the score changes otherwise only when the initializer resets it to 0; and
\* between two handlers, once a game has been started, the score is
\* tailLength - 6.
C12_ScoreCountsApples ==
    /\ []((tail # <<>> /\ pc # "respawn") => score = tailLength - 6)
    /\ [][ /\ (StepDone /\ WrappedHead = apple) => score' = score + 1
           /\ score' # score =>
                \/ StepDone /\ WrappedHead = apple /\ score' = score + 1
                \/ /\ ~FrameDone
                   /\ state \in {"MENU", "LOSE"}
                   /\ state' = "PLAYING"
                   /\ score' = 0 ]_vars

\* two apples eaten in the game under way
C12_Witness ==
    /\ state = "PLAYING"
    /\ score = 2
    /\ tailLength = 8

\* C13: started from the menu and left alone, with the apple off its row, the
\* snake moves one cell to the right (modulo the grid width) at every step
\* and keeps its length of 6 and the state PLAYING; after 10 steps its head is
\* at (18,8).  (No window of the scheduler can end and count 10 steps anew
\* within the scenario's clock, so a count of 10 means ten steps since the
\* start.)
C13_TenStepsScenario ==
    /\ [](movesPerformedThisSecond = 10 =>
             /\ state = "PLAYING"
             /\ tail[1] = Cell(18, 8)
             /\ tailLength = 6
             /\ Len(tail) = 6)
    /\ [][ StepDone =>
             /\ tail'[1] = Cell((tail[1].x + 1) % GRID_WIDTH, tail[1].y)
             /\ tailLength' = 6
             /\ Len(tail') = 6
             /\ state' = "PLAYING" ]_vars

\* the tenth step of the scenario has been taken
C13_Witness ==
    /\ state = "PLAYING"
    /\ movesPerformedThisSecond = 10
    /\ tail = [i \in 1..6 |-> Cell(19 - i, 8)]

\* the pool slots holding an active particle
ActiveSlots == {i \in DOMAIN emitter.particlePool : emitter.particlePool[i].active}

\* C14: the active slots of the pool never number more than maxParticles, and
\* no particle is created at an index outside the pool.
C14_PoolBounded ==
    /\ Cardinality(ActiveSlots) <= emitter.maxParticles
    /\ emitter.strayWrites = {}

-----------------------------------------------------------------------------
\* C15: once a quit request has cleared the running flag, the flag stays
\* cleared, events are still dispatched (Space in the menu still starts a
\* game), and the loop is left only by a complete frame, which runs OnUpdate,
\* draws the screen of the state it found, counts the frame and ends in
\* OnDestroy; the loop is never left in any other way, no frame follows, and
\* after OnDestroy nothing happens.
C15_QuitEndsAfterFrame ==
    /\ []( (pc = "loop" /\ ~isEngineRunning /\ state = "MENU") =>
              /\ ENABLED PollEvent({"SPACE"}, FALSE, RandOffPath)
              /\ ~ENABLED (/\ PollEvent({"SPACE"}, FALSE, RandOffPath)
                           /\ state' # "PLAYING") )
    /\ [][ (pc = "loop" /\ ~isEngineRunning) =>
             /\ ~isEngineRunning'
             /\ IF FrameDone
                THEN /\ pc' = "destroyed"
                     /\ rendered' = state
                     /\ frameRate' # frameRate
                     /\ textures' = NoTextures
                ELSE pc' = "loop" ]_vars
    /\ [][ (pc = "loop" /\ pc' \in {"destroyed", "exited", "main"}) =>
             /\ FrameDone
             /\ ~isEngineRunning
             /\ pc' = "destroyed" ]_vars
    /\ [][ (pc = "loop" /\ isEngineRunning /\ ~isEngineRunning') => pc' = "loop" ]_vars
    /\ [][ pc = "destroyed" => UNCHANGED vars ]_vars

\* the window was closed in the menu, a Space still in the queue started the
\* game, and the last frame took a step and drew the playing screen
C15_Witness ==
    /\ pc = "destroyed"
    /\ state = "PLAYING"
    /\ rendered = "PLAYING"
    /\ Len(tail) = 6
    /\ tail[1] = Cell(9, 8)

\* C16: when Engine::Create fails, the program exits at once: nothing is set
\* running, created, drawn or destroyed, and nothing happens afterwards.
C16_CreateFailureExits ==
    /\ pc = "main" =>
          /\ ENABLED CreateFails
          /\ ~ENABLED (CreateFails /\ ~(pc' = "exited" /\ UNCHANGED <<isEngineRunning,
                           ticks, frameRate, windowTitle, gameVars>>))
    /\ pc = "exited" =>
          /\ ~isEngineRunning
          /\ textures = NoTextures /\ ~font
          /\ rendered = "none"
          /\ frameRate.currentSecondsFrameCount = 0
          /\ state = "MENU" /\ tail = <<>>
          /\ ~ENABLED Next

\* the program has exited from main()
C16_Witness == pc = "exited" /\ ticks = 0

\* C17: whichever asset files cannot be read, start-up completes and the loop
\* runs; each image texture has a handle exactly when its file could be read
\* and the font exactly when the font file could; an image texture without a
\* handle is never loaded again, and without a font the score texture never
\* gets a handle.
C17_FailedLoadsContinue ==
    /\ [](pc = "main" =>
            \A files \in EngineFiles :
              /\ ENABLED Start(files)
              /\ ~ENABLED (/\ Start(files)
                           /\ ~(/\ pc' = "loop"
                                /\ isEngineRunning'
                                /\ font' = (FontFile \in files)
                                /\ ~textures'["score"]
                                /\ \A n \in TextureNames \ {"score"} :
                                      textures'[n] = (ImageFile(n) \in files))))
    /\ [][ pc = "loop" =>
             /\ font' = font
             /\ \A n \in TextureNames \ {"score"} : ~textures[n] => ~textures'[n] ]_vars
    /\ [](~font => ~textures["score"])

\* no asset could be read, and the game is being played and drawn
C17_Witness ==
    /\ pc = "loop"
    /\ state = "PLAYING"
    /\ rendered = "PLAYING"
    /\ tail # StartingTail
    /\ textures = NoTextures
    /\ ~font

\* C18: a frame less than 1000 ms after the last sample point counts itself
\* and returns 0 (the title is left alone); a frame 1000 ms or more after it
\* stores the count of the window, itself included, as the current FPS,
\* resets the counter to 0 and the window start to the current time, and
\* returns that count, which is not 0 (the title is set, showing it).
C18_FrameRateSample ==
    [][ (FrameDone /\ pc' # "respawn") =>
            IF ticks' - frameRate.timeStampOfBeginingOfSecond < 1000
            THEN /\ frameRate' = [frameRate EXCEPT !.currentSecondsFrameCount = @ + 1]
                 /\ windowTitle' = windowTitle
            ELSE /\ frameRate'.currentFramesPerSecond
                       = frameRate.currentSecondsFrameCount + 1
                 /\ frameRate'.currentFramesPerSecond # 0
                 /\ frameRate'.currentSecondsFrameCount = 0
                 /\ frameRate'.timeStampOfBeginingOfSecond = ticks'
                 /\ windowTitle' # <<>>
                 /\ windowTitle'[1] = frameRate.currentSecondsFrameCount + 1
                 /\ windowTitle'[2] = FrameDelta ]_vars

\* a second window has been sampled: three frames after a first window of two
C18_Witness ==
    /\ frameRate.currentFramesPerSecond = 3
    /\ frameRate.timeStampOfBeginingOfSecond > 1000
    /\ windowTitle # <<>>
    /\ windowTitle[1] = 3

-----------------------------------------------------------------------------
\* C19: no step moves the head onto the segment immediately behind it.
C19_NoReversalIntoBody ==
    [][ StepDone => WrappedHead # tail[2] ]_vars

\* C20: a step that detects a collision sets LOSE and still inserts the new
\* head, and still runs the apple check: on the apple the score and
\* tailLength go up by one, every old segment is kept and the apple moves,
\* otherwise the last segment is removed; the frame draws the playing screen.
\* From then on frames draw the lose screen and change nothing of the game,
\* and direction keys no longer steer.
C20_CollisionStepCompletes ==
    /\ [][ (StepDone /\ (\E i \in 1..tailLength : tail[i] = WrappedHead)
                     /\ pc' # "respawn") =>
             /\ state' = "LOSE"
             /\ rendered' = "PLAYING"
             /\ tail'[1] = WrappedHead
             /\ IF WrappedHead = apple
                THEN /\ score' = score + 1
                     /\ tailLength' = tailLength + 1
                     /\ tail' = <<WrappedHead>> \o tail
                     /\ apple' # apple
                ELSE /\ tail' = <<WrappedHead>> \o SubSeq(tail, 1, Len(tail) - 1)
                     /\ UNCHANGED <<score, tailLength, apple>> ]_vars
    /\ [][ (FrameDone /\ state = "LOSE") =>
             /\ rendered' = "LOSE"
             /\ UNCHANGED <<state, snakeVars, apple, score, schedVars>> ]_vars
    /\ []( (pc = "loop" /\ state = "LOSE") =>
              \A key \in DirectionKeys :
                  ~ENABLED (/\ PollEvent({key}, FALSE, RandNear)
                            /\ <<xVelocity', yVelocity'>> # <<xVelocity, yVelocity>>) )

\* the step that lost the game also ate the apple: the head lies on an older
\* segment, the snake has grown, and the playing screen was drawn
C20_Witness ==
    /\ state = "LOSE"
    /\ rendered = "PLAYING"
    /\ score = 1
    /\ tailLength = 7
    /\ Len(tail) = 7
    /\ \E i \in 2..7 : tail[i] = tail[1]

-----------------------------------------------------------------------------
\* the input the claimed priority rule honours: the first held input, in the
\* order up, down, left, right, back-to-menu, that the reversal guard lets
\* through
FirstActionable(keys) ==
    CASE Up(keys) /\ yVelocity # 1 -> "up"
      [] Down(keys) /\ yVelocity # -1 -> "down"
      [] Left(keys) /\ xVelocity # 1 -> "left"
      [] Right(keys) /\ xVelocity # -1 -> "right"
      [] "ESCAPE" \in keys -> "menu"
      [] OTHER -> "none"

\* C21: in PLAYING, a dispatch honours exactly the first actionable held
\* input: a direction sets the velocity to its unit vector and leaves the
\* state, back-to-menu sets MENU and leaves the velocity, and with no
\* actionable input nothing changes.
C21_FirstActionableHonored ==
    (pc = "loop" /\ state = "PLAYING") =>
        \A keys \in KeySnapshots :
            LET v == <<xVelocity, yVelocity>>
                a == FirstActionable(keys)
                w == CASE a = "up" -> <<0, -1>>
                       [] a = "down" -> <<0, 1>>
                       [] a = "left" -> <<-1, 0>>
                       [] a = "right" -> <<1, 0>>
                       [] OTHER -> v
            IN  ~ENABLED (/\ PollEvent(keys, FALSE, RandNear)
                          /\ ~(/\ <<xVelocity', yVelocity'>> = w
                               /\ state' = IF a = "menu" THEN "MENU" ELSE "PLAYING"))

\* C22: between handlers, once a game has been started, the snake stores
\* exactly tailLength segments, at least 6 of them, and a step puts the new
\* head at index 0.
C22_SegmentsMatchLength ==
    /\ []((tail # <<>> /\ pc # "respawn") =>
             /\ Len(tail) = tailLength
             /\ tailLength >= 6)
    /\ [](pc # "main" /\ state # "MENU" => tail # <<>>)
    /\ [][ (StepDone /\ pc' # "respawn") =>
             /\ tail'[1] = WrappedHead
             /\ \A i \in 2..Len(tail') : tail'[i] = tail[i - 1] ]_vars

\* a snake of eight segments that has also moved without eating
C22_Witness ==
    /\ state = "PLAYING"
    /\ tailLength = 8
    /\ Len(tail) = 8
    /\ movesPerformedThisSecond = 4

\* C23: the apple the initializer places lies on none of the six cells of
\* the snake it has just built.
C23_InitialAppleOffSnake ==
    [][ (state # "PLAYING" /\ state' = "PLAYING") =>
            \A i \in 1..Len(tail') : tail'[i] # apple' ]_vars

\* C24: outside LOSE the segments of the snake lie on pairwise distinct
\* cells.
C24_DistinctUnlessLost == state # "LOSE" => Distinct(tail)

\* a grown snake that has turned back alongside itself, still playing
C24_Witness ==
    /\ state = "PLAYING"
    /\ score = 1
    /\ Len(tail) = 7
    /\ tail[1].y # tail[4].y
    /\ tail[1].x = tail[4].x

\* C25: a frame in MENU or LOSE leaves the snake, the apple, the score and
\* the scheduler alone; a dispatch in MENU or LOSE without Space held changes
\* nothing of the game; one with Space held enters PLAYING.
C25_IdleStatesInert ==
    /\ [][ (FrameDone /\ state \in {"MENU", "LOSE"}) =>
             UNCHANGED <<state, snakeVars, apple, score, movesPerformedThisSecond,
                         secondAccumulator>> ]_vars
    /\ []( (pc = "loop" /\ state \in {"MENU", "LOSE"}) =>
              \A keys \in KeySnapshots :
                  IF "SPACE" \in keys
                  THEN ~ENABLED (PollEvent(keys, FALSE, RandNear) /\ state' # "PLAYING")
                  ELSE ~ENABLED (/\ PollEvent(keys, FALSE, RandNear)
                                 /\ ~UNCHANGED <<state, snakeVars, apple, score,
                                                  schedVars>>) )

\* a game lost on its first step at 100 ms: frames have passed in LOSE up to
\* 300 ms and the scheduler and the snake are where the losing step left them
C25_Witness ==
    /\ state = "LOSE"
    /\ rendered = "LOSE"
    /\ secondAccumulator = F(100)
    /\ movesPerformedThisSecond = 1
    /\ ~Distinct(tail)
    /\ ticks >= 300

\* C26: after a PLAYING frame whose delta time is not negative the
\* accumulator lies in [0, 1000) and the performed count in
\* [0, movesPerSecond]; the frame performs at most one step; and a frame on
\* which the accumulator reaches 1000 zeroes both counters and performs no
\* step.
C26_SchedulerBounds ==
    [][ (FrameDone /\ state = "PLAYING" /\ ~FrameDelta.nan /\ FrameDelta.v >= 0) =>
            /\ ~secondAccumulator'.nan
            /\ secondAccumulator'.v >= 0
            /\ secondAccumulator'.v < 1000
            /\ movesPerformedThisSecond' >= 0
            /\ movesPerformedThisSecond' <= movesPerSecond
            /\ movesPerformedThisSecond' <= AfterResetMoves + 1
            /\ (~FrameSum.nan /\ FrameSum.v >= 1000 =>
                    /\ secondAccumulator' = F(0)
                    /\ movesPerformedThisSecond' = 0
                    /\ ~moveThisFrameUpdate'
                    /\ UNCHANGED <<snakeVars, apple, score>>) ]_vars

\* C27: the start input leaves the scheduler's accumulator and performed
\* count as the previous game left them.
C27_StartKeepsWindow ==
    /\ [][ (state # "PLAYING" /\ state' = "PLAYING") =>
             UNCHANGED <<secondAccumulator, movesPerformedThisSecond>> ]_vars
    /\ []( (pc = "loop" /\ state \in {"MENU", "LOSE"}) =>
              /\ ENABLED (PollEvent({"SPACE"}, FALSE, RandNear) /\ state' = "PLAYING")
              /\ ~ENABLED (/\ PollEvent({"SPACE"}, FALSE, RandNear)
                            /\ ~UNCHANGED schedVars) )

\* a second game, just started from LOSE, in the middle of a window: the
\* snake is new and three steps of the old game still count
C27_Witness ==
    /\ state = "PLAYING"
    /\ rendered = "LOSE"
    /\ tail = StartingTail
    /\ score = 0
    /\ movesPerformedThisSecond = 3
    /\ ~secondAccumulator.nan
    /\ secondAccumulator.v = 300

\* C30: the delta time of every frame, the first included, is a number
\* between 0 and the time since the engine started.
C30_DeltaFromPreviousTick ==
    [][ FrameDone =>
            /\ ~FrameDelta.nan
            /\ FrameDelta.v >= 0
            /\ FrameDelta.v <= ticks' ]_vars

-----------------------------------------------------------------------------
\* the step is a call of ParticleEmitter::OnUpdate on a constructed emitter
EmitterUpdated == emitter.active /\ pc = "main" /\ ticks' # ticks

\* the particles the call created
CreatedNow == emitter'.particlesCreatedThisSecond - emitter.particlesCreatedThisSecond

\* C28 as claimed: for every capacity (of at least one slot) the index stays
\* in [0, maxParticles - 1), and the last slot of the pool is never active.
C28_IndexBelowLastSlot ==
    (emitter.active /\ emitter.maxParticles >= 1) =>
        /\ emitter.currentParticlePoolIndex >= 0
        /\ emitter.currentParticlePoolIndex < emitter.maxParticles - 1
        /\ emitter.maxParticles - 1 \in DOMAIN emitter.particlePool
        /\ ~emitter.particlePool[emitter.maxParticles - 1].active

\* the slots the index cycles through: maxParticles - 1 of them, but one
\* when the capacity is 1 or 0
RingSize == IF emitter.maxParticles >= 2 THEN emitter.maxParticles - 1 ELSE 1

\* C28 (amended): the particles created by an update are written at the
\* index and the indices following it in a ring of RingSize slots, active
\* occupants included, and the index ends after the last of them; the index
\* stays in [0, RingSize); with a capacity of 2 or more the last slot is
\* never written.
C28_RingSkipsLastSlot ==
    /\ [](emitter.active =>
             /\ emitter.currentParticlePoolIndex \in 0..(RingSize - 1)
             /\ emitter.maxParticles >= 2 =>
                    emitter.particlePool[emitter.maxParticles - 1] = NewParticle)
    /\ [][ EmitterUpdated =>
             /\ emitter'.written =
                    [j \in 1..CreatedNow |->
                        (emitter.currentParticlePoolIndex + j - 1) % RingSize]
             /\ emitter'.currentParticlePoolIndex =
                    (emitter.currentParticlePoolIndex + CreatedNow) % RingSize
             /\ \A j \in 1..Len(emitter'.written) :
                    emitter'.written[j] \in DOMAIN emitter.particlePool =>
                        emitter'.particlePool[emitter'.written[j]].totalLifeTime =
                            emitter.lifeInMiliseconds ]_vars

\* one update has gone twice round the ring of a pool of three: slot 0 was
\* overwritten while its particle was active, slot 2 has never been used
C28_Witness ==
    /\ emitter.active
    /\ emitter.maxParticles = 3
    /\ emitter.written = <<0, 1, 0, 1>>
    /\ emitter.particlePool[0].active
    /\ ~emitter.particlePool[2].active

\* the slots the last update did not write
Surviving == {i \in DOMAIN emitter.particlePool :
                 \A j \in 1..Len(emitter'.written) : emitter'.written[j] # i}

\* C29 as claimed: a particle is active after an update exactly when its
\* remaining lifetime is above 0; the alpha it is rendered with lies in
\* [0, 255] and is smaller than the alpha of its previous rendering.
C29_AlphaStrictlyDecreases ==
    /\ [](\A i \in DOMAIN emitter.particlePool :
             /\ emitter.particlePool[i].active <=>
                    emitter.particlePool[i].lifeTimeRemaining > 0
             /\ emitter.particlePool[i].active =>
                    OnRender(emitter)[i] \in 0..255)
    /\ [][ EmitterUpdated =>
             \A i \in Surviving :
                 (emitter.particlePool[i].active /\ emitter'.particlePool[i].active) =>
                     OnRender(emitter')[i] < OnRender(emitter)[i] ]_vars

\* C29 (amended): a particle is active after an update exactly when its
\* remaining lifetime is above 0; the alpha it is rendered with lies in
\* [0, 255] and is not greater than the alpha of its previous rendering; it
\* is smaller when the update took off at least a 255th of the total
\* lifetime.
C29_AlphaNeverIncreases ==
    /\ [](\A i \in DOMAIN emitter.particlePool :
             /\ emitter.particlePool[i].active <=>
                    emitter.particlePool[i].lifeTimeRemaining > 0
             /\ emitter.particlePool[i].active =>
                    OnRender(emitter)[i] \in 0..255)
    /\ [][ EmitterUpdated =>
             \A i \in Surviving :
                 (emitter.particlePool[i].active /\ emitter'.particlePool[i].active) =>
                     LET p == emitter.particlePool[i]
                         q == emitter'.particlePool[i]
                     IN  /\ OnRender(emitter')[i] <= OnRender(emitter)[i]
                         /\ 255 * (p.lifeTimeRemaining - q.lifeTimeRemaining)
                                >= p.totalLifeTime =>
                                OnRender(emitter')[i] < OnRender(emitter)[i] ]_vars

\* a pool holding a particle rendered at a third of its alpha next to one
\* that has reached exactly 0 and was deactivated
C29_Witness ==
    /\ emitter.active
    /\ \E i, j \in DOMAIN emitter.particlePool :
          /\ emitter.particlePool[i].active
          /\ OnRender(emitter)[i] = 85
          /\ ~emitter.particlePool[j].active
          /\ emitter.particlePool[j].totalLifeTime = 300
          /\ emitter.particlePool[j].lifeTimeRemaining = 0

====
